---- MODULE Spec2Model ----
(***************************************************************************)
(* Credential and service-handle management of the Schedule-Agent          *)
(* assistant: GoogleServiceManager (google_auth.py), the cache-less        *)
(* get_google_service of simple_google_auth.py that the tool modules       *)
(* import, and the default-scope table of config.py.                       *)
(***************************************************************************)
EXTENDS Integers, Sequences, FiniteSets, TLC

VARIABLES
    services,      \* GoogleServiceManager._services: service_key -> handle
    tokenFile,     \* content of settings.google_token_path (token.json)
    credsFile,     \* os.path.exists(settings.google_credentials_path)
    saKey,         \* settings.google_service_account_path: unset/missing/present
    bound,         \* credential each built handle carries (build(credentials=creds))
    nextHandle,    \* identity of the next object build() returns
    nextTok,       \* identity of the next access token the provider issues
    ncalls,        \* number of entry-point calls made so far
    last,          \* observation of the most recent completed call
    prev,          \* observation of the call completed before it
    cleared,       \* clear_cache() ran since the last completed get_service
    preClear,      \* _services as it was just before the most recent clear_cache()
    pc,            \* per thread: position inside get_service
    tcall,         \* per thread: the call in flight (arguments, locals, trace)
    cli            \* cli.main: position of the read loop and what it did last

vars == <<services, tokenFile, credsFile, saKey, bound, nextHandle, nextTok,
          ncalls, last, prev, cleared, preClear, pc, tcall, cli>>

(***************************************************************************)
(* Bounds                                                                  *)
(***************************************************************************)
MaxCalls == 2      \* entry-point calls per run
MaxEvents == 2     \* events the calendar returns for one day
MaxQuery == 2      \* characters of a search query
MaxLines == 3      \* lines entered at the prompt of the CLI
DayEnd == 4        \* the day runs from time 0 to time DayEnd (datetime.max.time())

\* the threads that call get_service concurrently
Threads == {"t1", "t2"}

(***************************************************************************)
(* config.py: default scopes                                               *)
(***************************************************************************)
GmailReadonly == "https://www.googleapis.com/auth/gmail.readonly"
GmailModify == "https://www.googleapis.com/auth/gmail.modify"
GmailSend == "https://www.googleapis.com/auth/gmail.send"
CalendarScope == "https://www.googleapis.com/auth/calendar"
DriveReadonly == "https://www.googleapis.com/auth/drive.readonly"
DriveFile == "https://www.googleapis.com/auth/drive.file"
CloudPlatform == "https://www.googleapis.com/auth/cloud-platform"

gmail_scopes == <<GmailReadonly, GmailModify, GmailSend>>
calendar_scopes == <<CalendarScope>>
drive_scopes == <<DriveReadonly, DriveFile>>

\* config.get_google_scopes: scope_mapping.get(service, [])
get_google_scopes(service) ==
    CASE service = "gmail" -> gmail_scopes
      [] service = "calendar" -> calendar_scopes
      [] service = "drive" -> drive_scopes
      [] OTHER -> <<>>

\* simple_google_auth.get_google_service, the if/elif chain for scopes is None
simple_default_scopes(api_name) ==
    CASE api_name = "gmail" -> <<GmailReadonly, GmailModify, GmailSend>>
      [] api_name = "calendar" -> <<CalendarScope>>
      [] api_name = "drive" -> <<DriveReadonly, DriveFile>>
      [] OTHER -> <<CloudPlatform>>

Range(s) == {s[i] : i \in DOMAIN s}

(***************************************************************************)
(* Inputs                                                                  *)
(***************************************************************************)
\* (api_name, api_version) pairs callers pass
ApiTargets == {<<"gmail", "v1">>, <<"calendar", "v3">>,
               <<"admin", "directory_v1">>, <<"admin_directory", "v1">>}

\* scope lists callers pass explicitly: the two orders of one scope set
ScopeLists == {<<GmailReadonly, CalendarScope>>, <<CalendarScope, GmailReadonly>>}

\* a call's arguments; given = FALSE is scopes=None
Requests ==
    {[api |-> t[1], ver |-> t[2], given |-> FALSE, scopes |-> <<>>] : t \in ApiTargets}
    \cup {[api |-> "gmail", ver |-> "v1", given |-> TRUE, scopes |-> l] : l \in ScopeLists}

\* what the outside world answers during one call: authOk is the answer to the one
\* authentication step the call performs (service-account load, refresh request or
\* consent flow), buildOk the answer to the discovery request of build(); when the
\* authentication step fails, unreachable tells whether the provider could not be
\* reached (a transport error) or answered with a rejection
IOs ==
    {io \in [authOk : BOOLEAN, buildOk : BOOLEAN, unreachable : BOOLEAN] :
        io.authOk => ~io.unreachable}

(***************************************************************************)
(* Credentials and the token file                                          *)
(*   id      : identity of the access token                                *)
(*   granted : the scopes the provider granted when the token was issued   *)
(*   scopes  : the scopes the Credentials object / the JSON carries        *)
(***************************************************************************)
NoCred == [src |-> "none", id |-> 0, granted |-> {}, scopes |-> <<>>,
           expired |-> FALSE, refresh |-> FALSE]

AbsentFile == [st |-> "absent", id |-> 0, granted |-> {}, scopes |-> <<>>,
               expired |-> FALSE, refresh |-> FALSE]

CorruptFile == [AbsentFile EXCEPT !.st = "corrupt"]

\* token_file.write(creds.to_json()) on a file opened with 'w'
ToJson(creds) ==
    [st |-> "ok", id |-> creds.id, granted |-> creds.granted, scopes |-> creds.scopes,
     expired |-> creds.expired, refresh |-> creds.refresh]

\* Credentials.from_authorized_user_file(token_path, scopes): the scopes of the
\* object are the ones passed, not the ones the file records
FromAuthorizedUserFile(tok, scopes) ==
    [src |-> "token", id |-> tok.id, granted |-> tok.granted, scopes |-> scopes,
     expired |-> tok.expired, refresh |-> tok.refresh]

\* service_account.Credentials.from_service_account_file(path, scopes=scopes)
FromServiceAccountFile(scopes, newId) ==
    [src |-> "service_account", id |-> newId, granted |-> Range(scopes),
     scopes |-> scopes, expired |-> FALSE, refresh |-> FALSE]

\* creds.refresh(Request()): the provider answers a refresh grant only for scopes
\* within the original grant; a new access token, same grant, same refresh token
RefreshSucceeds(creds, io) == io.authOk /\ Range(creds.scopes) \subseteq creds.granted

Refreshed(creds, newId) ==
    [creds EXCEPT !.src = "refreshed", !.id = newId, !.expired = FALSE]

\* InstalledAppFlow.from_client_secrets_file(...).run_local_server(port=0): the
\* installed-app flow asks for offline access, the token carries a refresh token
FlowCreds(scopes, newId) ==
    [src |-> "flow", id |-> newId, granted |-> Range(scopes), scopes |-> scopes,
     expired |-> FALSE, refresh |-> TRUE]

\* creds.valid
Valid(creds) == creds.src # "none" /\ ~creds.expired

\* outcome of a credential resolution
CredResult(ok, err, creds, tok, loaded, nRefresh, flow, wrote) ==
    [ok |-> ok, err |-> err, creds |-> creds, tok |-> tok, loaded |-> loaded,
     nRefresh |-> nRefresh, flow |-> flow, wrote |-> wrote]

\* a write that keeps what the file held when the new token has no refresh token
WriteTokenFileMerging(old, creds) ==
    IF old.st = "ok" THEN [ToJson(creds) EXCEPT !.granted = @ \cup old.granted,
                                                !.refresh = @ \/ old.refresh,
                                                !.id = old.id]
    ELSE ToJson(creds)

\* with open(settings.google_token_path, 'w') as token_file:
\*     token_file.write(creds.to_json())
WriteTokenFile(old, creds) == ToJson(creds)

\* a resolution that answers a failed refresh, and a missing client-secret file, by
\* going on to the consent flow
RefreshOrCreateFallingThrough(creds, scopes, tok, cf, io, newId, loaded) ==
    IF Valid(creds)
    THEN CredResult(TRUE, "", creds, tok, loaded, 0, FALSE, FALSE)
    ELSE IF creds.src # "none" /\ creds.expired /\ creds.refresh
            /\ RefreshSucceeds(creds, io)
    THEN CredResult(TRUE, "", Refreshed(creds, newId),
                    WriteTokenFile(tok, Refreshed(creds, newId)), loaded, 1, FALSE,
                    TRUE)
    ELSE CredResult(TRUE, "", FlowCreds(scopes, newId),
                    WriteTokenFile(tok, FlowCreds(scopes, newId)), loaded,
                    IF creds.src # "none" /\ creds.expired /\ creds.refresh
                    THEN 1 ELSE 0, TRUE, TRUE)

\* a resolution that saves the credential to the token file on every path, the
\* still-valid loaded token included
RefreshOrCreateAlwaysSaving(creds, scopes, tok, cf, io, newId, loaded) ==
    IF Valid(creds)
    THEN CredResult(TRUE, "", creds, WriteTokenFile(tok, creds), loaded, 0, FALSE,
                    TRUE)
    ELSE IF creds.src # "none" /\ creds.expired /\ creds.refresh
    THEN IF RefreshSucceeds(creds, io)
         THEN CredResult(TRUE, "", Refreshed(creds, newId),
                         WriteTokenFile(tok, Refreshed(creds, newId)), loaded, 1,
                         FALSE, TRUE)
         ELSE CredResult(FALSE, "refresh", NoCred, tok, loaded, 1, FALSE, FALSE)
    ELSE IF ~cf
    THEN CredResult(FALSE, "credentials_file_not_found", NoCred, tok, loaded, 0,
                    FALSE, FALSE)
    ELSE IF io.authOk
    THEN CredResult(TRUE, "", FlowCreds(scopes, newId),
                    WriteTokenFile(tok, FlowCreds(scopes, newId)), loaded, 0, TRUE,
                    TRUE)
    ELSE CredResult(FALSE, "interactive_flow", NoCred, tok, loaded, 0, TRUE, FALSE)

\* a resolution that, with no client-secret file, goes on with no credential
\* instead of raising
RefreshOrCreateWithoutCredentials(creds, scopes, tok, cf, io, newId, loaded) ==
    IF Valid(creds)
    THEN CredResult(TRUE, "", creds, tok, loaded, 0, FALSE, FALSE)
    ELSE IF creds.src # "none" /\ creds.expired /\ creds.refresh
    THEN IF RefreshSucceeds(creds, io)
         THEN CredResult(TRUE, "", Refreshed(creds, newId),
                         WriteTokenFile(tok, Refreshed(creds, newId)), loaded, 1,
                         FALSE, TRUE)
         ELSE CredResult(FALSE, "refresh", NoCred, tok, loaded, 1, FALSE, FALSE)
    ELSE IF ~cf
    THEN CredResult(TRUE, "", NoCred, tok, loaded, 0, FALSE, FALSE)
    ELSE IF io.authOk
    THEN CredResult(TRUE, "", FlowCreds(scopes, newId),
                    WriteTokenFile(tok, FlowCreds(scopes, newId)), loaded, 0, TRUE,
                    TRUE)
    ELSE CredResult(FALSE, "interactive_flow", NoCred, tok, loaded, 0, TRUE, FALSE)

\* lines 54-72 of google_auth.py, the same as lines 56-71 of simple_google_auth.py
RefreshOrCreate(creds, scopes, tok, cf, io, newId, loaded) ==
    IF Valid(creds)
    THEN CredResult(TRUE, "", creds, tok, loaded, 0, FALSE, FALSE)
    ELSE IF creds.src # "none" /\ creds.expired /\ creds.refresh
    THEN IF RefreshSucceeds(creds, io)
         THEN CredResult(TRUE, "", Refreshed(creds, newId),
                         WriteTokenFile(tok, Refreshed(creds, newId)), loaded, 1,
                         FALSE, TRUE)
         ELSE CredResult(FALSE, "refresh", NoCred, tok, loaded, 1, FALSE, FALSE)
    ELSE IF ~cf
    THEN CredResult(FALSE, "credentials_file_not_found", NoCred, tok, loaded, 0,
                    FALSE, FALSE)
    ELSE IF io.authOk
    THEN CredResult(TRUE, "", FlowCreds(scopes, newId),
                    WriteTokenFile(tok, FlowCreds(scopes, newId)), loaded, 0, TRUE,
                    TRUE)
    ELSE CredResult(FALSE, "interactive_flow", NoCred, tok, loaded, 0, TRUE, FALSE)

\* a resolution that takes the service-account branch whenever a key path is
\* configured, without looking whether the file is there
get_credentialsWithoutExistsCheck(scopes, sa, tok, cf, io, newId) ==
    IF sa # "unset"
    THEN IF io.authOk
         THEN CredResult(TRUE, "", FromServiceAccountFile(scopes, newId), tok, FALSE,
                         0, FALSE, FALSE)
         ELSE CredResult(FALSE, "service_account_load", NoCred, tok, FALSE, 0, FALSE,
                         FALSE)
    ELSE LET creds == IF tok.st = "ok" THEN FromAuthorizedUserFile(tok, scopes)
                      ELSE NoCred
         IN RefreshOrCreate(creds, scopes, tok, cf, io, newId, tok.st # "absent")

\* a resolution that lets the error of an unreadable token file escape
get_credentialsRaisingOnLoad(scopes, sa, tok, cf, io, newId) ==
    IF sa = "present"
    THEN IF io.authOk
         THEN CredResult(TRUE, "", FromServiceAccountFile(scopes, newId), tok, FALSE,
                         0, FALSE, FALSE)
         ELSE CredResult(FALSE, "service_account_load", NoCred, tok, FALSE, 0, FALSE,
                         FALSE)
    ELSE IF tok.st = "corrupt"
    THEN CredResult(FALSE, "token_load", NoCred, tok, TRUE, 0, FALSE, FALSE)
    ELSE LET creds == IF tok.st = "ok" THEN FromAuthorizedUserFile(tok, scopes)
                      ELSE NoCred
         IN RefreshOrCreate(creds, scopes, tok, cf, io, newId, tok.st # "absent")

\* GoogleServiceManager._get_credentials
get_credentials(scopes, sa, tok, cf, io, newId) ==
    IF sa = "present"
    THEN IF io.authOk
         THEN CredResult(TRUE, "", FromServiceAccountFile(scopes, newId), tok, FALSE,
                         0, FALSE, FALSE)
         ELSE CredResult(FALSE, "service_account_load", NoCred, tok, FALSE, 0, FALSE,
                         FALSE)
    ELSE LET creds == IF tok.st = "ok" THEN FromAuthorizedUserFile(tok, scopes)
                      ELSE NoCred   \* absent, or the load error was logged and dropped
         IN RefreshOrCreate(creds, scopes, tok, cf, io, newId, tok.st # "absent")

\* simple_google_auth.get_google_service, lines 38-71
simple_credentials(scopes, sa, tok, cf, io, newId) ==
    IF sa = "present"
    THEN IF io.authOk
         THEN CredResult(TRUE, "", FromServiceAccountFile(scopes, newId), tok, FALSE,
                         0, FALSE, FALSE)
         ELSE CredResult(FALSE, "service_account_load", NoCred, tok, FALSE, 0, FALSE,
                         FALSE)
    ELSE IF tok.st = "corrupt"
    THEN CredResult(FALSE, "token_load", NoCred, tok, TRUE, 0, FALSE, FALSE)
    ELSE LET creds == IF tok.st = "ok" THEN FromAuthorizedUserFile(tok, scopes)
                      ELSE NoCred
         IN RefreshOrCreate(creds, scopes, tok, cf, io, newId, tok.st # "absent")

(***************************************************************************)
(* The cache key                                                           *)
(***************************************************************************)
AllScopes == <<GmailReadonly, GmailModify, GmailSend, CalendarScope, DriveReadonly,
               DriveFile, CloudPlatform>>

\* hash of one scope string: distinct strings, distinct values
StrHash(s) == CHOOSE i \in DOMAIN AllScopes : AllScopes[i] = s

HashBase == Len(AllScopes) + 1

\* hash(tuple(scopes)): depends on the elements and on their order
RECURSIVE TupleHash(_)
TupleHash(t) ==
    IF t = <<>> THEN 0
    ELSE TupleHash(SubSeq(t, 1, Len(t) - 1)) * HashBase + StrHash(t[Len(t)])

\* f"{api_name}_{api_version}_{hash(tuple(scopes))}"
service_key(api_name, api_version, scopes) ==
    api_name \o "_" \o api_version \o "_" \o ToString(TupleHash(scopes))

(***************************************************************************)
(* Building a service and the shape of an observed call                    *)
(***************************************************************************)
EmptyMap == [k \in {} |-> 0]

\* the (name, version) pairs the discovery service knows
KnownApis == {<<"gmail", "v1">>, <<"calendar", "v3">>, <<"drive", "v3">>,
              <<"admin", "directory_v1">>}

\* googleapiclient.discovery.build(api_name, api_version, credentials=creds)
BuildSucceeds(api_name, api_version, io) ==
    io.buildOk /\ <<api_name, api_version>> \in KnownApis

\* str(e) of the exception the failing step raised: the refresh request and the
\* code exchange of the consent flow go to the same token endpoint, and a
\* transport error reads the same from either
CauseText(err, io) ==
    CASE err = "service_account_load" -> "service account key file is malformed"
      [] err = "credentials_file_not_found" -> "Credentials file not found: credentials.json"
      [] err \in {"refresh", "interactive_flow"} /\ io.unreachable
           -> "connection to oauth2.googleapis.com failed"
      [] err = "refresh" /\ ~io.unreachable -> "invalid_grant"
      [] err = "interactive_flow" /\ ~io.unreachable -> "access_denied"
      [] err = "build" -> "discovery document not available"
      [] OTHER -> ""

\* the text of the GoogleAuthError that leaves get_service, as the parts the two
\* f-strings put together: line 110 around line 78 around str(e); a failure of
\* build is wrapped by line 110 only
GoogleAuthErrorMessage(api_name, err, io) ==
    IF err = "build"
    THEN <<"Failed to create ", api_name, " service: ", CauseText(err, io)>>
    ELSE <<"Failed to create ", api_name, " service: ",
           "Failed to authenticate with Google: ", CauseText(err, io)>>

NoCall ==
    [who |-> "none", api |-> "", ver |-> "", given |-> FALSE, scopes |-> <<>>,
     key |-> "", hit |-> FALSE, ok |-> FALSE, exc |-> "", err |-> "", handle |-> 0,
     creds |-> NoCred, resolved |-> FALSE, loaded |-> FALSE, nRefresh |-> 0,
     flow |-> FALSE, wrote |-> FALSE, built |-> FALSE, tokBefore |-> AbsentFile,
     tokAfter |-> AbsentFile, cacheBefore |-> EmptyMap, cacheAfter |-> EmptyMap,
     afterClear |-> FALSE, preClear |-> EmptyMap, sa |-> "unset", cf |-> FALSE,
     ret |-> "none", profile |-> "none", msg |-> <<>>, tool |-> "",
     apiCall |-> "none",
     twin |-> [ok |-> FALSE, src |-> "none", err |-> "", tokAfter |-> AbsentFile],
     events |-> <<>>, duration |-> 0, slots |-> <<>>,
     fn |-> "", arg |-> "", label |-> "", calls |-> <<>>, text |-> "",
     query |-> <<>>]

\* what is remembered of the call before the most recent one
Earlier(c) ==
    [who |-> c.who, api |-> c.api, ver |-> c.ver, scopes |-> c.scopes, key |-> c.key,
     ok |-> c.ok, handle |-> c.handle]

\* self._services[service_key] = service
CacheStore(svcs, key, handle) ==
    [k \in DOMAIN svcs \cup {key} |-> IF k = key THEN handle ELSE svcs[k]]

\* a clear that leaves the entries in place
CacheClearKeeping(svcs) == svcs

\* self._services.clear()
CacheClear(svcs) == EmptyMap

\* a lookup that never finds the key
CacheHasNever(svcs, key) == FALSE

\* service_key in self._services
CacheHas(svcs, key) == key \in DOMAIN svcs

\* GoogleServiceManager.get_service: what one call, run from start to end in the
\* environment (svcs, tok, cf, sa), observes and leaves behind
get_service(req, io, svcs, bnd, tok, cf, sa, hId, tId) ==
    LET scopes == IF req.given THEN req.scopes ELSE get_google_scopes(req.api)
        key == service_key(req.api, req.ver, scopes)
        base == [NoCall EXCEPT !.who = "manager", !.api = req.api, !.ver = req.ver,
                               !.given = req.given, !.scopes = scopes, !.key = key,
                               !.tokBefore = tok, !.tokAfter = tok,
                               !.cacheBefore = svcs, !.cacheAfter = svcs,
                               !.sa = sa, !.cf = cf]
    IN IF CacheHas(svcs, key)
       THEN [base EXCEPT !.hit = TRUE, !.ok = TRUE, !.handle = svcs[key],
                         !.creds = bnd[svcs[key]]]
       ELSE LET r == get_credentials(scopes, sa, tok, cf, io, tId)
                got == [base EXCEPT !.resolved = TRUE, !.loaded = r.loaded,
                                    !.nRefresh = r.nRefresh, !.flow = r.flow,
                                    !.wrote = r.wrote, !.tokAfter = r.tok]
            IN IF ~r.ok
               THEN [got EXCEPT !.exc = "GoogleAuthError", !.err = r.err,
                                !.msg = GoogleAuthErrorMessage(req.api, r.err, io)]
               ELSE IF ~BuildSucceeds(req.api, req.ver, io)
               THEN [got EXCEPT !.built = TRUE, !.exc = "GoogleAuthError",
                                !.err = "build", !.creds = r.creds,
                                !.msg = GoogleAuthErrorMessage(req.api, "build", io)]
               ELSE [got EXCEPT !.built = TRUE, !.ok = TRUE, !.handle = hId,
                                !.creds = r.creds,
                                !.cacheAfter = CacheStore(svcs, key, hId)]

\* simple_google_auth.get_google_service: no cache, every call resolves and builds
simple_get_google_service(req, io, tok, cf, sa, hId, tId) ==
    LET scopes == IF req.given THEN req.scopes ELSE simple_default_scopes(req.api)
        base == [NoCall EXCEPT !.who = "simple", !.api = req.api, !.ver = req.ver,
                               !.given = req.given, !.scopes = scopes,
                               !.tokBefore = tok, !.tokAfter = tok,
                               !.sa = sa, !.cf = cf]
        r == simple_credentials(scopes, sa, tok, cf, io, tId)
        got == [base EXCEPT !.resolved = TRUE, !.loaded = r.loaded,
                            !.nRefresh = r.nRefresh, !.flow = r.flow,
                            !.wrote = r.wrote, !.tokAfter = r.tok]
    IN IF ~r.ok
       THEN [got EXCEPT !.exc = "Exception", !.err = r.err]
       ELSE IF ~BuildSucceeds(req.api, req.ver, io)
       THEN [got EXCEPT !.built = TRUE, !.exc = "Exception", !.err = "build",
                        !.creds = r.creds]
       ELSE [got EXCEPT !.built = TRUE, !.ok = TRUE, !.handle = hId,
                        !.creds = r.creds]

\* a validation that lets a failure of get_google_service escape
validate_credentialsPropagating(obs, profileOk) ==
    IF ~obs.ok THEN [obs EXCEPT !.who = "validate", !.ret = "raised"]
    ELSE [obs EXCEPT !.who = "validate",
                     !.profile = IF profileOk THEN "ok" ELSE "failed",
                     !.ret = IF profileOk THEN "True" ELSE "False"]

\* validate_credentials: obs is what its get_google_service('gmail', 'v1') call
\* observed, profileOk the answer to users().getProfile(userId='me').execute();
\* every Exception of the try block ends in "return False"
validate_credentials(obs, profileOk) ==
    IF ~obs.ok THEN [obs EXCEPT !.who = "validate", !.ret = "False"]
    ELSE [obs EXCEPT !.who = "validate",
                     !.profile = IF profileOk THEN "ok" ELSE "failed",
                     !.ret = IF profileOk THEN "True" ELSE "False"]

\* refresh_credentials: service_manager.clear_cache(), then validate_credentials()
\* on the emptied cache; neither raises, so the except clause of lines 155-157
\* has nothing to catch
refresh_credentials(io, profileOk, svcs, bnd, tok, cf, sa, hId, tId) ==
    LET req == [api |-> "gmail", ver |-> "v1", given |-> FALSE, scopes |-> <<>>]
        obs == get_service(req, io, CacheClear(svcs), bnd, tok, cf, sa, hId, tId)
    IN [validate_credentials(obs, profileOk) EXCEPT !.who = "refresh"]

\* the calls the tool modules make: _get_gmail_service, _get_calendar_service,
\* _get_drive_service
ToolRequests ==
    {[api |-> t[1], ver |-> t[2], given |-> FALSE, scopes |-> <<>>] :
        t \in {<<"gmail", "v1">>, <<"calendar", "v3">>, <<"drive", "v3">>}}

\* the functions the three tool modules hand to the agents, each with the API
\* whose handle it asks for
ToolFunctions ==
    {<<f, "gmail">> : f \in {"get_unread_emails", "search_emails",
                             "get_email_content", "draft_email", "send_email",
                             "organize_email", "get_gmail_labels"}}
    \cup {<<f, "calendar">> : f \in {"get_today_events", "get_week_events",
                                      "create_event", "delete_event",
                                      "search_events", "get_free_time_slots"}}
    \cup {<<f, "drive">> : f \in {"search_drive_files", "get_file_content",
                                   "list_recent_files", "share_file",
                                   "get_drive_info"}}

\* the module a tool function is defined in
ToolModule(fn) == "custom_" \o fn[2] \o "_tool"

\* a tool function whose except clause names HttpError only
tool_functionCatchingHttpError(fn, obs, rest) ==
    IF ~obs.ok THEN [obs EXCEPT !.tool = ToolModule(fn), !.ret = "raised"]
    ELSE IF rest = "api_call_fails"
    THEN [obs EXCEPT !.tool = ToolModule(fn), !.apiCall = "failed", !.ret = "error_string"]
    ELSE IF rest = "shaping_fails"
    THEN [obs EXCEPT !.tool = ToolModule(fn), !.apiCall = "ok", !.ret = "raised"]
    ELSE [obs EXCEPT !.tool = ToolModule(fn), !.apiCall = "ok", !.ret = "result_string"]

\* how the rest of a tool function goes once it has its handle: .execute()
\* raises, or the shaping of arguments and answer into text raises (KeyError,
\* ValueError, ZeroDivisionError), or neither
ToolOutcomes == {"ok", "api_call_fails", "shaping_fails"}

\* the body every tool function has: inside one try, obtain the handle (obs is
\* what that call observed), call the API and shape the arguments and the answer
\* into text; "except Exception as e" returns the error text
tool_function(fn, obs, rest) ==
    IF ~obs.ok THEN [obs EXCEPT !.tool = ToolModule(fn), !.ret = "error_string"]
    ELSE IF rest = "api_call_fails"
    THEN [obs EXCEPT !.tool = ToolModule(fn), !.apiCall = "failed", !.ret = "error_string"]
    ELSE IF rest = "shaping_fails"
    THEN [obs EXCEPT !.tool = ToolModule(fn), !.apiCall = "ok", !.ret = "error_string"]
    ELSE [obs EXCEPT !.tool = ToolModule(fn), !.apiCall = "ok", !.ret = "result_string"]

(***************************************************************************)
(* custom_calendar_tool.get_free_time_slots                                *)
(***************************************************************************)
\* the events of the requested day as events().list returns them: start and end
\* within the day, start before end, in any arrangement (apart, touching,
\* overlapping, nested)
DayEvents ==
    {e \in [start : 0..DayEnd, end : 0..DayEnd] : e.start < e.end}

RECURSIVE EventLists(_)
EventLists(n) ==
    IF n = 0 THEN {<<>>}
    ELSE EventLists(n - 1)
         \cup {Append(l, e) : l \in {m \in EventLists(n - 1) : Len(m) = n - 1},
                              e \in DayEvents}

\* duration_minutes, in the unit of the day's times
Durations == 1..DayEnd

\* sorted(events, key=lambda x: x['start'].get('dateTime', ...)): stable, by start
RECURSIVE sorted_events(_)
sorted_events(evs) ==
    IF evs = <<>> THEN <<>>
    ELSE LET h == Head(evs)
             rest == sorted_events(Tail(evs))
             k == Cardinality({i \in DOMAIN rest : rest[i].start < h.start})
         IN SubSeq(rest, 1, k) \o <<h>> \o SubSeq(rest, k + 1, Len(rest))

\* lines 223-234: the loop over sorted_events; current_time is set to the end of
\* each event in turn
RECURSIVE scan_events(_, _, _, _)
scan_events(evs, current_time, free_slots, duration_minutes) ==
    IF evs = <<>> THEN [current_time |-> current_time, free_slots |-> free_slots]
    ELSE LET event == Head(evs)
             found == /\ event.start > current_time
                      /\ event.start - current_time >= duration_minutes
             slot == [start |-> current_time, end |-> event.start,
                      duration |-> event.start - current_time]
         IN scan_events(Tail(evs), event.end,
                        IF found THEN Append(free_slots, slot) ELSE free_slots,
                        duration_minutes)

\* lines 216-244: the free slots of the day
free_time_slots(events, duration_minutes) ==
    LET r == scan_events(sorted_events(events), 0, <<>>, duration_minutes)
    IN IF r.current_time < DayEnd /\ DayEnd - r.current_time >= duration_minutes
       THEN Append(r.free_slots, [start |-> r.current_time, end |-> DayEnd,
                                  duration |-> DayEnd - r.current_time])
       ELSE r.free_slots

\* get_free_time_slots(date, duration_minutes): obs is what its
\* _get_calendar_service() call observed; the text returned lists the slots
get_free_time_slots(obs, rest, events, duration_minutes) ==
    LET r == tool_function(<<"get_free_time_slots", "calendar">>, obs, rest)
    IN IF r.ret = "result_string"
       THEN [r EXCEPT !.events = events, !.duration = duration_minutes,
                      !.slots = free_time_slots(events, duration_minutes)]
       ELSE [r EXCEPT !.events = events, !.duration = duration_minutes]

(***************************************************************************)
(* custom_gmail_tool.organize_email                                        *)
(***************************************************************************)
\* label_id=None, the default
NoneLabel == "None"

\* values of the action argument: the six the function knows, and others
Actions == {"delete", "archive", "add_label", "remove_label", "mark_read",
            "mark_unread", "star", "Delete", ""}

\* values of the label_id argument
LabelIds == {NoneLabel, "", "Label_1"}

\* "and label_id": None and the empty string are false
Truthy(label_id) == label_id \notin {NoneLabel, ""}

\* a messages().modify(userId='me', id=message_id, body=...) request
Modify(add, remove) == [method |-> "modify", add |-> add, remove |-> remove]

\* a dispatch that does not look at label_id
organize_requestsWithoutLabelCheck(action, label_id) ==
    CASE action = "delete" -> <<[method |-> "delete", add |-> <<>>, remove |-> <<>>]>>
      [] action = "archive" -> <<Modify(<<>>, <<"INBOX">>)>>
      [] action = "add_label" -> <<Modify(<<label_id>>, <<>>)>>
      [] action = "remove_label" -> <<Modify(<<>>, <<label_id>>)>>
      [] action = "mark_read" -> <<Modify(<<>>, <<"UNREAD">>)>>
      [] action = "mark_unread" -> <<Modify(<<"UNREAD">>, <<>>)>>
      [] OTHER -> <<>>

\* lines 242-290: the if/elif chain; the requests the call issues, none in the
\* else branch
organize_requests(action, label_id) ==
    CASE action = "delete" -> <<[method |-> "delete", add |-> <<>>, remove |-> <<>>]>>
      [] action = "archive" -> <<Modify(<<>>, <<"INBOX">>)>>
      [] action = "add_label" /\ Truthy(label_id) -> <<Modify(<<label_id>>, <<>>)>>
      [] action = "remove_label" /\ Truthy(label_id)
           -> <<Modify(<<>>, <<label_id>>)>>
      [] action = "mark_read" -> <<Modify(<<>>, <<"UNREAD">>)>>
      [] action = "mark_unread" -> <<Modify(<<"UNREAD">>, <<>>)>>
      [] OTHER -> <<>>

\* organize_email(message_id, action, label_id): obs is what _get_gmail_service()
\* observed, apiOk whether .execute() returned
organize_email(obs, apiOk, action, label_id) ==
    LET r == [obs EXCEPT !.tool = "custom_gmail_tool", !.fn = "organize_email",
                         !.arg = action, !.label = label_id]
        reqs == organize_requests(action, label_id)
    IN IF ~obs.ok THEN [r EXCEPT !.ret = "error_string", !.text = "error"]
       ELSE IF reqs = <<>>
       THEN [r EXCEPT !.ret = "result_string", !.text = "Unknown action"]
       ELSE IF apiOk
       THEN [r EXCEPT !.ret = "result_string", !.text = "done", !.calls = reqs,
                      !.apiCall = "ok"]
       ELSE [r EXCEPT !.ret = "error_string", !.text = "error", !.calls = reqs,
                      !.apiCall = "failed"]

(***************************************************************************)
(* search_emails, search_events, search_drive_files                        *)
(***************************************************************************)
\* the three search functions, each with the API whose handle it asks for
SearchFunctions ==
    {<<"search_emails", "gmail">>, <<"search_events", "calendar">>,
     <<"search_drive_files", "drive">>}

\* the characters of a query: whitespace and others
Whitespace == {" ", "\t"}
QueryChars == Whitespace \cup {"a", "b"}

\* the queries tried: strings of up to n characters
RECURSIVE Queries(_)
Queries(n) ==
    IF n = 0 THEN {<<>>}
    ELSE Queries(n - 1)
         \cup {Append(q, c) : q \in {x \in Queries(n - 1) : Len(x) = n - 1},
                              c \in QueryChars}

\* str.strip(): leading, then trailing whitespace removed
RECURSIVE lstrip(_)
lstrip(q) == IF q # <<>> /\ Head(q) \in Whitespace THEN lstrip(Tail(q)) ELSE q

RECURSIVE rstrip(_)
rstrip(q) ==
    IF q # <<>> /\ q[Len(q)] \in Whitespace THEN rstrip(SubSeq(q, 1, Len(q) - 1))
    ELSE q

strip(q) == rstrip(lstrip(q))

\* "not query or not query.strip()"
EmptyQuery(q) == q = <<>> \/ strip(q) = <<>>

\* search_emails(query), search_events(query), search_drive_files(query): obs is
\* what the _get_*_service() call of the first statement observed, apiOk whether
\* the list request returned
search_function(fn, obs, apiOk, query) ==
    LET s == [obs EXCEPT !.tool = ToolModule(fn), !.fn = fn[1], !.query = query]
    IN IF ~obs.ok THEN [s EXCEPT !.ret = "error_string", !.text = "error"]
       ELSE IF EmptyQuery(query)
       THEN [s EXCEPT !.ret = "result_string",
                      !.text = "Search query cannot be empty"]
       ELSE IF apiOk
       THEN [s EXCEPT !.ret = "result_string", !.text = "done",
                      !.calls = <<[method |-> "list", q |-> strip(query)]>>,
                      !.apiCall = "ok"]
       ELSE [s EXCEPT !.ret = "error_string", !.text = "error",
                      !.calls = <<[method |-> "list", q |-> strip(query)]>>,
                      !.apiCall = "failed"]

(***************************************************************************)
(* cli.main and cli.run_pa_task                                            *)
(***************************************************************************)
\* the lines typed at "Enter your command: "
CliLines ==
    {<<>>, <<" ">>, <<"\t", " ">>,
     <<"e", "x", "i", "t">>, <<"E", "X", "I", "T">>, <<"E", "x", "i", "t">>,
     <<" ", "e", "x", "i", "T", " ">>,
     <<"e", "x", "i", "t", "s">>, <<"e", "x", " ", "i", "t">>,
     <<"m", "a", "i", "l">>, <<" ", "M", "a", "i", "l", "\t">>}

\* str.lower(), on the letters of CliLines
LowerChar(c) ==
    CASE c = "E" -> "e" [] c = "X" -> "x" [] c = "I" -> "i" [] c = "T" -> "t"
      [] c = "M" -> "m" [] OTHER -> c

lower(q) == [i \in DOMAIN q |-> LowerChar(q[i])]

\* a loop that compares the task with "exit" as typed
leaves_loopCaseSensitive(task) == task = <<>> \/ task = <<"e", "x", "i", "t">>

\* line 64: "not task or task.lower() == 'exit'"
leaves_loop(task) == task = <<>> \/ lower(task) = <<"e", "x", "i", "t">>

\* what one command can meet: create_session raises, runner.run_async raises,
\* or the events are read to the end
CliOutcomes == {"create_raises", "run_raises", "completes"}

\* the loop before the first prompt: no session in session_service
CliStart ==
    [pc |-> "prompt", n |-> 0, line |-> <<>>, task |-> <<>>, sessions |-> 0,
     session |-> 0, earlier |-> {}, ran |-> FALSE, raised |-> FALSE,
     report |-> "none"]

\* run_pa_task(task, runner, session_service) inside the try of main: a session
\* is created, then the runner is run in it; "except Exception" prints the error
run_pa_task(c, outcome) ==
    LET used == IF c.session = 0 THEN c.earlier ELSE c.earlier \cup {c.session}
    IN IF outcome = "create_raises"
       THEN [c EXCEPT !.session = 0, !.earlier = used, !.ran = FALSE,
                      !.raised = TRUE, !.report = "error"]
       ELSE [c EXCEPT !.sessions = c.sessions + 1, !.session = c.sessions + 1,
                      !.earlier = used, !.ran = TRUE,
                      !.raised = (outcome = "run_raises"),
                      !.report = IF outcome = "run_raises" THEN "error"
                                 ELSE "result"]

\* one turn of "while True": the stripped line either leaves the loop or is
\* handed to run_pa_task
cli_turn(c, line, outcome) ==
    LET task == strip(line)
        read == [c EXCEPT !.n = c.n + 1, !.line = line, !.task = task]
    IN IF leaves_loop(task)
       THEN [read EXCEPT !.pc = "stopped", !.report = "goodbye", !.ran = FALSE,
                         !.raised = FALSE,
                         !.earlier = IF c.session = 0 THEN c.earlier
                                     ELSE c.earlier \cup {c.session},
                         !.session = 0]
       ELSE run_pa_task(read, outcome)

(***************************************************************************)
(* State machine                                                           *)
(***************************************************************************)
Idle == [status |-> "none", req |-> [api |-> "", ver |-> "", given |-> FALSE,
                                      scopes |-> <<>>],
         scopes |-> <<>>, key |-> "", creds |-> NoCred, handle |-> 0,
         resolved |-> FALSE, overlap |-> FALSE]

\* token files an operator may have left behind
InitTokens ==
    {AbsentFile, CorruptFile}
    \cup {[st |-> "ok", id |-> 0, granted |-> Range(l), scopes |-> l, expired |-> e,
           refresh |-> r] : l \in {gmail_scopes}, e \in BOOLEAN, r \in BOOLEAN}

Init ==
    /\ services = EmptyMap
    /\ tokenFile \in InitTokens
    /\ credsFile \in BOOLEAN
    /\ saKey \in {"unset", "missing", "present"}
    /\ bound = EmptyMap
    /\ nextHandle = 1
    /\ nextTok = 1
    /\ ncalls = 0
    /\ cli = CliStart
    /\ last = NoCall
    /\ prev = Earlier(NoCall)
    /\ cleared = FALSE
    /\ preClear = EmptyMap
    /\ pc = [t \in Threads |-> "idle"]
    /\ tcall = [t \in Threads |-> Idle]

\* what a completed call leaves in the shared state
Completed(obs) ==
    /\ tokenFile' = obs.tokAfter
    /\ nextTok' = IF obs.creds.id = nextTok \/ obs.tokAfter.id = nextTok
                  THEN nextTok + 1 ELSE nextTok
    /\ nextHandle' = IF obs.ok /\ obs.handle = nextHandle THEN nextHandle + 1
                     ELSE nextHandle
    /\ bound' = IF obs.ok /\ obs.handle = nextHandle
                THEN CacheStore(bound, nextHandle, obs.creds) ELSE bound
    /\ ncalls' = ncalls + 1
    /\ prev' = Earlier(last)
    /\ last' = [obs EXCEPT !.afterClear = cleared, !.preClear = preClear]
    /\ cleared' = FALSE

\* service_manager.get_service(api_name, api_version, scopes), run to completion
GetService ==
    /\ ncalls < MaxCalls
    /\ \E req \in Requests, io \in IOs :
         LET obs == get_service(req, io, services, bound, tokenFile, credsFile,
                                saKey, nextHandle, nextTok)
         IN /\ services' = obs.cacheAfter
            /\ Completed(obs)
    /\ UNCHANGED <<cli, credsFile, saKey, preClear, pc, tcall>>

\* a Gmail, Calendar or Drive tool function, run to completion
ToolCall ==
    /\ ncalls < MaxCalls
    /\ \E fn \in ToolFunctions, io \in IOs, rest \in ToolOutcomes :
         \E req \in {r \in ToolRequests : r.api = fn[2]} :
            Completed(tool_function(fn,
                                    simple_get_google_service(req, io, tokenFile,
                                                              credsFile, saKey,
                                                              nextHandle, nextTok),
                                    rest))
    /\ UNCHANGED <<cli, services, credsFile, saKey, preClear, pc, tcall>>

\* service_manager.clear_cache()
ClearCache ==
    /\ ncalls < MaxCalls
    /\ ~cleared
    /\ preClear' = services
    /\ services' = CacheClear(services)
    /\ cleared' = TRUE
    /\ UNCHANGED <<cli, tokenFile, credsFile, saKey, bound, nextHandle, nextTok, ncalls,
                   last, prev, pc, tcall>>

\* time passes: the persisted access token reaches its expiry
TokenExpires ==
    /\ ncalls < MaxCalls
    /\ tokenFile.st = "ok"
    /\ ~tokenFile.expired
    /\ tokenFile' = [tokenFile EXCEPT !.expired = TRUE]
    /\ UNCHANGED <<cli, services, credsFile, saKey, bound, nextHandle, nextTok, ncalls,
                   last, prev, cleared, preClear, pc, tcall>>

\* the operator deletes the token file (the usual way to force a new consent)
TokenFileRemoved ==
    /\ ncalls < MaxCalls
    /\ tokenFile.st # "absent"
    /\ tokenFile' = AbsentFile
    /\ UNCHANGED <<cli, services, credsFile, saKey, bound, nextHandle, nextTok, ncalls,
                   last, prev, cleared, preClear, pc, tcall>>

\* validate_credentials(), run to completion
ValidateCredentials ==
    /\ ncalls < MaxCalls
    /\ \E io \in IOs, profileOk \in BOOLEAN :
         LET req == [api |-> "gmail", ver |-> "v1", given |-> FALSE, scopes |-> <<>>]
             obs == get_service(req, io, services, bound, tokenFile, credsFile,
                                saKey, nextHandle, nextTok)
         IN /\ services' = obs.cacheAfter
            /\ Completed(validate_credentials(obs, profileOk))
    /\ UNCHANGED <<cli, credsFile, saKey, preClear, pc, tcall>>

\* refresh_credentials(), run to completion
RefreshCredentials ==
    /\ ncalls < MaxCalls
    /\ \E io \in IOs, profileOk \in BOOLEAN :
         LET obs == refresh_credentials(io, profileOk, services, bound, tokenFile,
                                        credsFile, saKey, nextHandle, nextTok)
         IN /\ services' = obs.cacheAfter
            /\ Completed(obs)
    /\ preClear' = services
    /\ UNCHANGED <<cli, credsFile, saKey, pc, tcall>>

\* a process that uses the service manager of google_auth.py
Next == GetService \/ ClearCache \/ TokenExpires \/ TokenFileRemoved

Spec == Init /\ [][Next]_vars

(***************************************************************************)
(* get_service called from several threads: the method takes no lock, and  *)
(* a thread can be descheduled between the cache lookup, the credential    *)
(* resolution, the build and the cache store (each of the last three       *)
(* blocks on I/O)                                                          *)
(***************************************************************************)
InFlight(t) == pc[t] # "idle"

\* lines 83-93: scopes, service_key, cache lookup
T_Begin(t) ==
    /\ pc[t] = "idle"
    /\ ncalls < MaxCalls
    /\ \E req \in Requests :
         LET scopes == IF req.given THEN req.scopes ELSE get_google_scopes(req.api)
             key == service_key(req.api, req.ver, scopes)
             others == {u \in Threads \ {t} : InFlight(u) /\ tcall[u].key = key}
             mine == [Idle EXCEPT !.req = req, !.scopes = scopes, !.key = key]
         IN IF CacheHas(services, key)
            THEN /\ tcall' = [tcall EXCEPT ![t] = [mine EXCEPT !.status = "returned",
                                                   !.handle = services[key]]]
                 /\ pc' = pc
            ELSE /\ tcall' = [u \in Threads |->
                                IF u = t
                                THEN [mine EXCEPT !.status = "running",
                                                  !.overlap = others # {}]
                                ELSE IF u \in others
                                THEN [tcall[u] EXCEPT !.overlap = TRUE]
                                ELSE tcall[u]]
                 /\ pc' = [pc EXCEPT ![t] = "creds"]
    /\ ncalls' = ncalls + 1
    /\ UNCHANGED <<cli, services, tokenFile, credsFile, saKey, bound, nextHandle, nextTok,
                   last, prev, cleared, preClear>>

\* line 96: creds = self._get_credentials(scopes)
T_Creds(t) ==
    /\ pc[t] = "creds"
    /\ \E io \in IOs :
         LET r == get_credentials(tcall[t].scopes, saKey, tokenFile, credsFile, io,
                                  nextTok)
         IN /\ tokenFile' = r.tok
            /\ nextTok' = IF r.creds.id = nextTok THEN nextTok + 1 ELSE nextTok
            /\ IF r.ok
               THEN /\ tcall' = [tcall EXCEPT ![t].resolved = TRUE,
                                              ![t].creds = r.creds]
                    /\ pc' = [pc EXCEPT ![t] = "build"]
               ELSE /\ tcall' = [tcall EXCEPT ![t].resolved = TRUE,
                                              ![t].status = "raised"]
                    /\ pc' = [pc EXCEPT ![t] = "idle"]
    /\ UNCHANGED <<cli, services, credsFile, saKey, bound, nextHandle, ncalls, last, prev,
                   cleared, preClear>>

\* line 100: service = build(api_name, api_version, credentials=creds)
T_Build(t) ==
    /\ pc[t] = "build"
    /\ \E io \in IOs :
         IF BuildSucceeds(tcall[t].req.api, tcall[t].req.ver, io)
         THEN /\ tcall' = [tcall EXCEPT ![t].handle = nextHandle]
              /\ bound' = CacheStore(bound, nextHandle, tcall[t].creds)
              /\ nextHandle' = nextHandle + 1
              /\ pc' = [pc EXCEPT ![t] = "store"]
         ELSE /\ tcall' = [tcall EXCEPT ![t].status = "raised"]
              /\ pc' = [pc EXCEPT ![t] = "idle"]
              /\ UNCHANGED <<bound, nextHandle>>
    /\ UNCHANGED <<cli, services, tokenFile, credsFile, saKey, nextTok, ncalls, last, prev,
                   cleared, preClear>>

\* lines 103-106: self._services[service_key] = service; return service
T_Store(t) ==
    /\ pc[t] = "store"
    /\ services' = CacheStore(services, tcall[t].key, tcall[t].handle)
    /\ tcall' = [tcall EXCEPT ![t].status = "returned"]
    /\ pc' = [pc EXCEPT ![t] = "idle"]
    /\ UNCHANGED <<cli, tokenFile, credsFile, saKey, bound, nextHandle, nextTok, ncalls,
                   last, prev, cleared, preClear>>

Begin == \E t \in Threads : T_Begin(t)
Creds == \E t \in Threads : T_Creds(t)
Build == \E t \in Threads : T_Build(t)
Store == \E t \in Threads : T_Store(t)

NextThreads == Begin \/ Creds \/ Build \/ Store

SpecThreads == Init /\ [][NextThreads]_vars

\* both entry points run on one environment: the manager's get_service on its
\* empty cache, and simple_google_auth.get_google_service with the same arguments
\* on the same files and with the same answers from outside; the observation is
\* the manager's, with the outcome of the other kept in twin
both_get_service(req, io, bnd, tok, cf, sa, hId, tId) ==
    LET m == get_service(req, io, EmptyMap, bnd, tok, cf, sa, hId, tId)
        g == simple_get_google_service(req, io, tok, cf, sa, hId, tId)
    IN [m EXCEPT !.who = "both",
                 !.twin = [ok |-> g.ok, src |-> g.creds.src, err |-> g.err,
                           tokAfter |-> g.tokAfter]]

BothGetService ==
    /\ ncalls < MaxCalls
    /\ services = EmptyMap
    /\ \E req \in ToolRequests, io \in IOs :
         LET obs == both_get_service(req, io, bound, tokenFile, credsFile, saKey,
                                     nextHandle, nextTok)
         IN /\ services' = obs.cacheAfter
            /\ Completed(obs)
    /\ UNCHANGED <<cli, credsFile, saKey, preClear, pc, tcall>>

\* the two entry points side by side
NextBoth == BothGetService \/ ClearCache \/ TokenExpires \/ TokenFileRemoved

SpecBoth == Init /\ [][NextBoth]_vars

\* the calendar of the day and the requested duration are drawn at the start;
\* the token file is absent or holds a valid calendar token
InitCalendar ==
    /\ services = EmptyMap
    /\ tokenFile \in {AbsentFile,
                       [st |-> "ok", id |-> 0, granted |-> Range(calendar_scopes),
                        scopes |-> calendar_scopes, expired |-> FALSE,
                        refresh |-> TRUE]}
    /\ credsFile = TRUE
    /\ saKey = "unset"
    /\ bound = EmptyMap
    /\ nextHandle = 1
    /\ nextTok = 1
    /\ ncalls = 0
    /\ cli = CliStart
    /\ \E evs \in EventLists(MaxEvents), d \in Durations :
         last = [NoCall EXCEPT !.events = evs, !.duration = d]
    /\ prev = Earlier(NoCall)
    /\ cleared = FALSE
    /\ preClear = EmptyMap
    /\ pc = [t \in Threads |-> "idle"]
    /\ tcall = [t \in Threads |-> Idle]

\* get_free_time_slots, run to completion on the day's events
GetFreeTimeSlots ==
    /\ last.who = "none"
    /\ \E io \in IOs, rest \in ToolOutcomes :
         \E req \in {r \in ToolRequests : r.api = "calendar"} :
            Completed(get_free_time_slots(
                          simple_get_google_service(req, io, tokenFile, credsFile,
                                                    saKey, nextHandle, nextTok),
                          rest, last.events, last.duration))
    /\ UNCHANGED <<cli, services, credsFile, saKey, preClear, pc, tcall>>

NextCalendar == GetFreeTimeSlots

SpecCalendar == InitCalendar /\ [][NextCalendar]_vars

\* the arguments of one organize_email call are drawn at the start
InitOrganize ==
    /\ services = EmptyMap
    /\ tokenFile \in InitTokens
    /\ credsFile \in BOOLEAN
    /\ saKey = "unset"
    /\ bound = EmptyMap
    /\ nextHandle = 1
    /\ nextTok = 1
    /\ ncalls = 0
    /\ cli = CliStart
    /\ \E a \in Actions, l \in LabelIds :
         last = [NoCall EXCEPT !.arg = a, !.label = l]
    /\ prev = Earlier(NoCall)
    /\ cleared = FALSE
    /\ preClear = EmptyMap
    /\ pc = [t \in Threads |-> "idle"]
    /\ tcall = [t \in Threads |-> Idle]

\* organize_email, run to completion
OrganizeEmail ==
    /\ last.who = "none"
    /\ \E io \in IOs, apiOk \in BOOLEAN :
         \E req \in {r \in ToolRequests : r.api = "gmail"} :
            Completed(organize_email(
                          simple_get_google_service(req, io, tokenFile, credsFile,
                                                    saKey, nextHandle, nextTok),
                          apiOk, last.arg, last.label))
    /\ UNCHANGED <<cli, services, credsFile, saKey, preClear, pc, tcall>>

NextOrganize == OrganizeEmail

SpecOrganize == InitOrganize /\ [][NextOrganize]_vars

\* the query of one search call is drawn at the start
InitSearch ==
    /\ services = EmptyMap
    /\ tokenFile \in InitTokens
    /\ credsFile \in BOOLEAN
    /\ saKey = "unset"
    /\ bound = EmptyMap
    /\ nextHandle = 1
    /\ nextTok = 1
    /\ ncalls = 0
    /\ cli = CliStart
    /\ \E q \in Queries(MaxQuery) : last = [NoCall EXCEPT !.query = q]
    /\ prev = Earlier(NoCall)
    /\ cleared = FALSE
    /\ preClear = EmptyMap
    /\ pc = [t \in Threads |-> "idle"]
    /\ tcall = [t \in Threads |-> Idle]

\* one of the three search functions, run to completion
Search ==
    /\ last.who = "none"
    /\ \E fn \in SearchFunctions, io \in IOs, apiOk \in BOOLEAN :
         \E req \in {r \in ToolRequests : r.api = fn[2]} :
            Completed(search_function(
                          fn,
                          simple_get_google_service(req, io, tokenFile, credsFile,
                                                    saKey, nextHandle, nextTok),
                          apiOk, last.query))
    /\ UNCHANGED <<cli, services, credsFile, saKey, preClear, pc, tcall>>

NextSearch == Search

SpecSearch == InitSearch /\ [][NextSearch]_vars

\* a line is entered and the loop body runs on it
CliReadLine ==
    /\ cli.pc = "prompt"
    /\ cli.n < MaxLines
    /\ \E line \in CliLines, outcome \in CliOutcomes :
         cli' = cli_turn(cli, line, outcome)
    /\ UNCHANGED <<services, tokenFile, credsFile, saKey, bound, nextHandle, nextTok,
                   ncalls, last, prev, cleared, preClear, pc, tcall>>

\* input() raises EOFError or KeyboardInterrupt: line 63 is outside the try, the
\* exception leaves main and no line was entered
CliInputRaises ==
    /\ cli.pc = "prompt"
    /\ cli' = [cli EXCEPT !.pc = "aborted"]
    /\ UNCHANGED <<services, tokenFile, credsFile, saKey, bound, nextHandle, nextTok,
                   ncalls, last, prev, cleared, preClear, pc, tcall>>

NextCli == CliReadLine \/ CliInputRaises

SpecCli == Init /\ [][NextCli]_vars

\* a process that checks its credentials with validate_credentials
NextValidate ==
    \/ ValidateCredentials
    \/ RefreshCredentials
    \/ ClearCache
    \/ TokenExpires
    \/ TokenFileRemoved

SpecValidate == Init /\ [][NextValidate]_vars

\* a process that runs the agents' tools, which import simple_google_auth.py
NextTools == ToolCall \/ TokenExpires

SpecTools == Init /\ [][NextTools]_vars

(***************************************************************************)
(* Properties                                                              *)
(***************************************************************************)
\* equal arguments, the scopes compared as sets
SameTriple(a, b) ==
    a.api = b.api /\ a.ver = b.ver /\ Range(a.scopes) = Range(b.scopes)

\* two get_service calls of the manager in a row, no clear_cache in between
TwoManagerCalls ==
    prev.who = "manager" /\ last.who = "manager" /\ ~last.afterClear

\* the call did none of the work of a resolution
NoAuthWork(c) ==
    ~c.resolved /\ ~c.loaded /\ c.nRefresh = 0 /\ ~c.flow /\ ~c.wrote /\ ~c.built

\* the call went through _get_credentials past the service-account branch
TokenPath(c) == c.who = "manager" /\ c.resolved /\ c.sa # "present"

\* C1: two sequential get_service calls with equal arguments, the scopes compared
\* as sets, return the identical cached handle, and the second does no network
\* I/O and no token-storage access.
C1_SetEqualCallsShareHandle ==
    (TwoManagerCalls /\ prev.ok /\ SameTriple(prev, last))
        => (last.ok /\ last.handle = prev.handle /\ NoAuthWork(last))

\* C2: a handle returned by get_service is bound to a credential that was granted
\* at least the requested scopes.
C2_HandleCoversRequestedScopes ==
    (last.who = "manager" /\ last.ok) => Range(last.scopes) \subseteq last.creds.granted

\* C3: when the refresh of an expired, refreshable persisted token fails,
\* get_service does not retry it and does not fail there: it goes on to the
\* interactive consent flow.
C3_FailedRefreshFallsThroughToFlow ==
    (TokenPath(last) /\ last.nRefresh > 0 /\ last.creds.src # "refreshed")
        => (last.nRefresh = 1 /\ last.err # "refresh" /\ (last.cf => last.flow))

\* the thread's call ran _get_credentials and obtained a credential
Authenticated(t) == tcall[t].resolved /\ tcall[t].creds.src # "none"

\* C4: of two get_service calls for the same key that are in flight together on a
\* cache without that key, only one executes the credential resolution (never do
\* both go through an authentication of their own).
C4_OneResolutionPerKey ==
    \A t, u \in Threads :
        (t # u /\ tcall[t].overlap /\ tcall[u].overlap /\ tcall[t].key = tcall[u].key)
            => ~(Authenticated(t) /\ Authenticated(u))

\* C5: across the tools' calls, credential resolution and service build are done
\* once per (API, version, scope set); a later call for the same combination
\* reuses the handle.
C5_ToolsAuthenticateOncePerCombination ==
    (prev.who = "simple" /\ last.who = "simple" /\ prev.ok /\ SameTriple(prev, last))
        => (last.ok /\ last.handle = prev.handle /\ NoAuthWork(last))

\* C6: two requests share a cache entry only if api_name, api_version and scope
\* set are all equal: requests that differ in one of them get different cache keys
\* and the later one is not served the handle of the earlier one.
C6_SharedEntryOnlyForEqualTriples ==
    (TwoManagerCalls /\ prev.ok /\ ~SameTriple(prev, last))
        => (last.key # prev.key /\ (last.ok => last.handle # prev.handle))

\* C7: after clear_cache(), the next get_service call with arguments cached before
\* the clear runs the resolution again (credentials, then build with them) and
\* does not return a handle that was cached before the clear.
C7_FreshResolutionAfterClear ==
    (last.who = "manager" /\ last.afterClear /\ last.key \in DOMAIN last.preClear)
        => /\ ~last.hit
           /\ last.resolved
           /\ last.creds.src # "none" => last.built
           /\ last.ok => last.handle \notin Range(last.preClear)

C7_Witness ==
    /\ last.who = "manager" /\ last.afterClear /\ last.ok
    /\ last.key \in DOMAIN last.preClear
    /\ prev.ok /\ prev.key = last.key /\ prev.handle # last.handle

\* the persisted token is expired and carries a refresh token
ExpiredRefreshable(tok) == tok.st = "ok" /\ tok.expired /\ tok.refresh

\* the persisted token is expired and carries no refresh token
ExpiredNotRefreshable(tok) == tok.st = "ok" /\ tok.expired /\ ~tok.refresh

\* C8: without a service-account key, a cache-miss get_service call that finds a
\* persisted token expired with a refresh token performs exactly one refresh call
\* and does not start the interactive consent flow.
C8_OneRefreshNoFlow ==
    (TokenPath(last) /\ ExpiredRefreshable(last.tokBefore))
        => (last.nRefresh = 1 /\ ~last.flow)

C8_Witness ==
    /\ TokenPath(last) /\ ExpiredRefreshable(last.tokBefore)
    /\ last.ok /\ last.creds.src = "refreshed"

\* the consent flow of the call succeeded
FlowSucceeded(c) == c.flow /\ c.creds.src = "flow"

\* the token file holds the serialization of the call's new credential and nothing
\* of what it held before
HoldsExactlyNewToken(c) ==
    /\ c.wrote
    /\ c.tokAfter = [st |-> "ok", id |-> c.creds.id, granted |-> Range(c.scopes),
                     scopes |-> c.scopes, expired |-> FALSE, refresh |-> TRUE]
    /\ c.tokAfter.id # c.tokBefore.id

\* C9 as stated: without a service-account key and with a persisted token expired
\* without refresh token, get_service runs the interactive consent flow and, when
\* the flow succeeds, the token file holds exactly the new token.
C9_Original ==
    (TokenPath(last) /\ ExpiredNotRefreshable(last.tokBefore))
        => (last.flow /\ (FlowSucceeded(last) => HoldsExactlyNewToken(last)))

\* C9 amended: in that situation get_service attempts no refresh; it runs the
\* consent flow if the client-secret (credentials) file exists and otherwise fails
\* with "Credentials file not found" leaving the token file as it was; when the
\* flow succeeds the token file holds exactly the new token.
C9_FlowReplacesTokenFile ==
    (TokenPath(last) /\ ExpiredNotRefreshable(last.tokBefore))
        => /\ last.nRefresh = 0
           /\ last.flow = last.cf
           /\ ~last.cf => (last.err = "credentials_file_not_found"
                           /\ last.tokAfter = last.tokBefore)
           /\ FlowSucceeded(last) => HoldsExactlyNewToken(last)

C9_Witness ==
    /\ TokenPath(last) /\ ExpiredNotRefreshable(last.tokBefore)
    /\ FlowSucceeded(last) /\ last.ok /\ tokenFile = last.tokAfter

C10_WitnessFlowFails ==
    /\ TokenPath(last) /\ last.tokBefore.st = "absent"
    /\ last.cf /\ ~last.ok /\ last.err = "interactive_flow"
    /\ last.cacheBefore # EmptyMap /\ services = last.cacheBefore

\* the credential of the call was minted from the service-account key
FromKey(c) == c.creds.src = "service_account"

\* C11: credential resolution takes the service-account key exactly when a key
\* path is configured and the file exists; then the credential is minted from
\* the key for the requested scopes, the token file is neither read nor written
\* and neither a refresh nor a consent flow runs; in every other case the
\* resolution goes on to the persisted token without raising at this step.
C11_ServiceAccountKeyFirst ==
    (last.who = "manager" /\ last.resolved)
        => IF last.sa = "present"
           THEN /\ FromKey(last) \/ last.err = "service_account_load"
                /\ FromKey(last) => /\ last.creds.scopes = last.scopes
                                    /\ last.creds.granted = Range(last.scopes)
                /\ ~last.loaded /\ ~last.wrote /\ last.nRefresh = 0 /\ ~last.flow
                /\ last.tokAfter = last.tokBefore
           ELSE /\ ~FromKey(last)
                /\ last.err # "service_account_load"
                /\ last.loaded = (last.tokBefore.st # "absent")

C11_Witness ==
    /\ last.who = "manager" /\ last.resolved /\ last.sa = "present"
    /\ last.ok /\ FromKey(last)
    /\ ExpiredRefreshable(last.tokBefore) /\ tokenFile = last.tokBefore

C11_WitnessPathWithoutFile ==
    /\ last.who = "manager" /\ last.resolved /\ last.sa = "missing"
    /\ last.ok /\ last.loaded /\ last.creds.src = "token"

\* the API names that have an entry in the default-scope table
MappedApis == {"gmail", "calendar", "drive"}

\* C12: a get_service call that omits its scopes and names an API without an
\* entry in the default-scope table fails; it does not go on to credential
\* resolution with an empty or substituted scope list, and caches nothing.
C12_UnknownApiWithoutScopesFails ==
    (last.who = "manager" /\ ~last.given /\ last.api \notin MappedApis)
        => (~last.ok /\ ~last.resolved /\ last.cacheAfter = last.cacheBefore)

\* C13: validate_credentials returns True when the resolution for gmail v1 and the
\* getProfile call that follows both succeed, and returns False, raising nothing,
\* for every failure at any stage (missing credentials file, rejected flow, failed
\* refresh, failed build, failed getProfile call).
C13_ValidateReturnsBoolean ==
    last.who = "validate"
        => /\ last.ret \in {"True", "False"}
           /\ (last.ret = "True") <=> (last.ok /\ last.profile = "ok")
           /\ ~last.ok => last.exc = "GoogleAuthError"

C13_Witness ==
    /\ last.who = "validate" /\ last.ret = "False"
    /\ ~last.ok /\ last.resolved /\ last.err = "refresh"

C13_WitnessTrue ==
    last.who = "validate" /\ last.ret = "True" /\ last.resolved /\ last.flow

C13_WitnessProfileFails ==
    last.who = "validate" /\ last.ret = "False" /\ last.ok /\ last.profile = "failed"

C13_WitnessBuildFails ==
    last.who = "validate" /\ last.ret = "False" /\ last.err = "build"

C13_WitnessNoCredentialsFile ==
    /\ last.who = "validate" /\ last.ret = "False"
    /\ last.err = "credentials_file_not_found"

\* the call obtained a token from the provider: by the consent flow or by a refresh
ObtainedToken(c) == c.resolved /\ c.creds.src \in {"flow", "refreshed"}

\* C14: the token file is written only in a call that obtained a new token (consent
\* flow) or a refreshed token; a cache hit, a call resolved through the
\* service-account key, a call that loads a still-valid persisted token and a call
\* that fails before obtaining a token leave the token file unchanged.
C14_TokenFileWrittenOnlyWithNewToken ==
    last.who \in {"manager", "simple"}
        => /\ last.wrote <=> ObtainedToken(last)
           /\ ~ObtainedToken(last) => last.tokAfter = last.tokBefore
           /\ (last.hit \/ FromKey(last) \/ last.creds.src = "token"
               \/ (~last.ok /\ ~last.built))
                  => (~last.wrote /\ last.tokAfter = last.tokBefore)

C14_Witness ==
    /\ last.who = "manager" /\ last.ok /\ last.creds.src = "token"
    /\ last.resolved /\ last.loaded /\ ~last.wrote
    /\ prev.who = "manager" /\ last.tokBefore.id # 0
    /\ tokenFile = last.tokBefore

C14_WitnessWritten ==
    /\ last.who = "manager" /\ last.wrote /\ last.creds.src = "refreshed"
    /\ last.tokAfter # last.tokBefore

\* C15: after a successful refresh of the persisted token, the token file holds
\* the serialization of the refreshed credential, written before get_service
\* returns; nothing is merged in from what the file held before.
C15_RefreshOverwritesTokenFile ==
    (last.who \in {"manager", "simple"} /\ last.resolved
     /\ last.creds.src = "refreshed")
        => /\ last.nRefresh = 1 /\ last.wrote
           /\ last.tokAfter = [st |-> "ok", id |-> last.creds.id,
                               granted |-> last.creds.granted,
                               scopes |-> last.scopes, expired |-> FALSE,
                               refresh |-> last.creds.refresh]
           /\ last.tokAfter.id # last.tokBefore.id

C15_Witness ==
    /\ last.who = "manager" /\ last.ok /\ last.creds.src = "refreshed"
    /\ ExpiredRefreshable(last.tokBefore)
    /\ last.tokAfter.scopes # last.tokBefore.scopes
    /\ tokenFile = last.tokAfter

\* C16: a get_service call ends in one of two ways: it returns a handle built
\* from a credential whose resolution succeeded (valid when the handle was built),
\* or it raises GoogleAuthError; it never returns a handle built without a
\* credential, and no other exception type leaves it.
C16_HandleOrGoogleAuthError ==
    last.who = "manager"
        => IF last.ok
           THEN /\ last.exc = ""
                /\ last.handle \in DOMAIN bound
                /\ bound[last.handle] = last.creds
                /\ Valid(last.creds)
           ELSE /\ last.exc = "GoogleAuthError"
                /\ last.handle = 0
                /\ last.cacheAfter = last.cacheBefore

C16_Witness ==
    /\ prev.who = "manager" /\ prev.ok
    /\ last.who = "manager" /\ ~last.ok /\ last.resolved
    /\ last.err = "credentials_file_not_found" /\ last.exc = "GoogleAuthError"

C16_WitnessHandle ==
    /\ prev.who = "manager" /\ ~prev.ok
    /\ last.who = "manager" /\ last.ok /\ last.resolved /\ last.built

\* the stage of credential resolution a failure belongs to; the check for the
\* client-secret file is the first step of the consent-flow stage
StageOf(err) == IF err = "credentials_file_not_found" THEN "interactive_flow" ELSE err

\* the failures _get_credentials raises
ResolutionFailures ==
    {"service_account_load", "refresh", "credentials_file_not_found",
     "interactive_flow"}

\* C17: a failure inside credential resolution is re-raised with the text of its
\* cause and with the requested API in the message, and the raised error tells
\* the stage: no failure at another stage raises an error with the same text.
C17_RaisedErrorTellsStage ==
    (last.who = "manager" /\ ~last.ok /\ last.err \in ResolutionFailures)
        => /\ last.exc = "GoogleAuthError"
           /\ last.msg[2] = last.api
           /\ last.msg[Len(last.msg)] # ""
           /\ \A e \in ResolutionFailures, io \in IOs :
                StageOf(e) # StageOf(last.err)
                    => GoogleAuthErrorMessage(last.api, e, io) # last.msg

\* the step is a clear_cache() call
ClearCacheStep == ~cleared /\ cleared'

\* C18: clear_cache() empties the cache whatever it held and changes nothing
\* else: the token file, the credentials file and the service-account key stay
\* as they are (and so do the handles already given out).
C18_ClearCacheOnlyEmptiesCache ==
    [][ClearCacheStep => /\ services' = EmptyMap
                         /\ preClear' = services
                         /\ tokenFile' = tokenFile
                         /\ credsFile' = credsFile
                         /\ saKey' = saKey
                         /\ bound' = bound]_vars

C18_Witness ==
    /\ cleared /\ preClear # EmptyMap /\ services = EmptyMap
    /\ tokenFile.st = "ok" /\ tokenFile = last.tokAfter

C18_WitnessEmptyCache ==
    cleared /\ preClear = EmptyMap /\ services = EmptyMap /\ ncalls > 0

\* the step stores handle h under key k at the end of a get_service call in which
\* the credential resolution and the build succeeded
StoredBySuccessfulCall(k, h) ==
    \/ /\ last' # last /\ last'.who \in {"manager", "validate"}
       /\ last'.ok /\ ~last'.hit /\ last'.resolved /\ last'.built
       /\ last'.key = k /\ last'.handle = h
    \/ \E t \in Threads :
          /\ pc[t] = "store" /\ pc'[t] = "idle"
          /\ tcall[t].resolved /\ tcall[t].creds.src # "none"
          /\ tcall[t].key = k /\ tcall[t].handle = h

\* C19: a cache entry is created only by a get_service call whose credential
\* resolution and build both succeeded, and an entry stays mapped to the same
\* handle until clear_cache(): no get_service call, successful or failing, for
\* the same or another key, and no token expiry removes or replaces it.
C19_EntriesCreatedOnceAndKept ==
    [][/\ \A k \in DOMAIN services' \ DOMAIN services :
             StoredBySuccessfulCall(k, services'[k])
       /\ ~ClearCacheStep
             => \A k \in DOMAIN services :
                   k \in DOMAIN services' /\ services'[k] = services[k]]_vars

C20_WitnessApiCallFails ==
    last.tool = "custom_drive_tool" /\ last.ok /\ last.apiCall = "failed"

C20_WitnessResult ==
    last.tool = "custom_calendar_tool" /\ last.ret = "result_string"

\* the thread's call returned a handle to its caller
Returned(t) == tcall[t].status = "returned"

\* C21: get_service calls for the same key that ran concurrently all return the
\* same handle, and once all have returned that handle is the one the cache
\* holds under the key.
C21_ConcurrentCallsShareCachedHandle ==
    \A t, u \in Threads :
        (t # u /\ tcall[t].overlap /\ tcall[u].overlap /\ tcall[t].key = tcall[u].key
         /\ Returned(t) /\ Returned(u))
            => /\ tcall[t].handle = tcall[u].handle
               /\ CacheHas(services, tcall[t].key)
               /\ services[tcall[t].key] = tcall[t].handle

\* C22: on an empty cache the manager's get_service and
\* simple_google_auth.get_google_service behave the same for every combination
\* of service-account key, token file (absent, valid, expired with or without
\* refresh token, unreadable) and credentials file: same credential source, same
\* success or failure, same token file afterwards.
C22_EntryPointsAgree ==
    last.who = "both"
        => /\ last.ok = last.twin.ok
           /\ last.creds.src = last.twin.src
           /\ last.tokAfter = last.twin.tokAfter

\* the same api_name, api_version and scope sequence (scopes left out resolve to
\* the same default list)
SameArguments(a, b) == a.api = b.api /\ a.ver = b.ver /\ a.scopes = b.scopes

\* C23: a get_service call of the manager that repeats the api_name, the
\* api_version and the scope sequence of an earlier successful call, with no
\* clear_cache() in between, returns that call's handle and runs neither
\* _get_credentials nor build, also when the token of the handle's credential
\* has expired in the meantime.
C23_RepeatedCallIsCacheHit ==
    (TwoManagerCalls /\ prev.ok /\ SameArguments(prev, last))
        => /\ last.ok /\ last.hit
           /\ last.handle = prev.handle
           /\ NoAuthWork(last)
           /\ last.tokAfter = last.tokBefore
           /\ last.cacheAfter = last.cacheBefore

C23_Witness ==
    /\ TwoManagerCalls /\ prev.ok /\ SameArguments(prev, last)
    /\ last.hit /\ last.handle = prev.handle
    /\ last.tokBefore.st = "ok" /\ last.tokBefore.expired
    /\ last.creds.id = last.tokBefore.id /\ last.creds.id # 0

\* C24: in the manager's _get_credentials a token file that exists but cannot be
\* loaded is treated like an absent one: the load error is not raised, no
\* refresh is attempted, and the resolution goes to the consent flow, failing
\* only when the credentials file is missing or the flow fails.
C24_UnreadableTokenGoesToFlow ==
    (TokenPath(last) /\ last.tokBefore.st = "corrupt")
        => /\ last.loaded /\ last.nRefresh = 0
           /\ last.err \notin {"token_load", "refresh"}
           /\ last.flow = last.cf
           /\ ~last.cf => (~last.ok /\ last.err = "credentials_file_not_found")
           /\ (~last.ok /\ ~last.built)
                 => last.err \in {"credentials_file_not_found", "interactive_flow"}
           /\ last.built => (FlowSucceeded(last) /\ HoldsExactlyNewToken(last))
           /\ ~last.built => last.tokAfter = last.tokBefore

C24_Witness ==
    /\ TokenPath(last) /\ last.tokBefore.st = "corrupt"
    /\ last.ok /\ last.flow /\ last.creds.src = "flow"
    /\ tokenFile = last.tokAfter /\ tokenFile.st = "ok"

C24_WitnessFlowFails ==
    /\ TokenPath(last) /\ last.tokBefore.st = "corrupt"
    /\ ~last.ok /\ last.err = "interactive_flow" /\ tokenFile.st = "corrupt"

\* C25: refresh_credentials() never raises and returns what validate_credentials()
\* returns on an emptied cache: the gmail v1 call inside it is never a cache hit,
\* it resolves credentials anew and builds anew; afterwards the cache holds the
\* gmail v1 entry alone if the result is True, and is empty if the resolution or
\* the build failed.
C25_RefreshValidatesOnEmptyCache ==
    last.who = "refresh"
        => /\ last.ret \in {"True", "False"}
           /\ (last.ret = "True") <=> (last.ok /\ last.profile = "ok")
           /\ last.api = "gmail" /\ last.ver = "v1"
           /\ ~last.hit /\ last.resolved /\ last.cacheBefore = EmptyMap
           /\ last.creds.src # "none" => last.built
           /\ last.ok => last.cacheAfter = CacheStore(EmptyMap, last.key, last.handle)
           /\ ~last.ok => last.cacheAfter = EmptyMap
           /\ ~cleared => services = last.cacheAfter

C25_Witness ==
    /\ last.who = "refresh" /\ last.ret = "True"
    /\ prev.who = "validate" /\ prev.ok /\ prev.key = last.key
    /\ last.key \in DOMAIN preClear /\ preClear[last.key] # last.handle
    /\ services = CacheStore(EmptyMap, last.key, last.handle)

C25_WitnessFails ==
    /\ last.who = "refresh" /\ last.ret = "False" /\ ~last.ok
    /\ preClear # EmptyMap /\ services = EmptyMap

\* a slot and an event have time in common
Intersects(slot, event) == slot.start < event.end /\ event.start < slot.end

\* C26: for every list of events of the day, overlapping and nested ones
\* included, and every duration_minutes, each free slot get_free_time_slots
\* reports is at least duration_minutes long and intersects no event.
C26_FreeSlotsAreFree ==
    (last.tool = "custom_calendar_tool" /\ last.ret = "result_string")
        => \A i \in DOMAIN last.slots :
              /\ last.slots[i].end - last.slots[i].start >= last.duration
              /\ \A j \in DOMAIN last.events :
                    ~Intersects(last.slots[i], last.events[j])

\* the request the action stands for
ExpectedRequest(action, label_id) ==
    CASE action = "delete" -> [method |-> "delete", add |-> <<>>, remove |-> <<>>]
      [] action = "archive" -> [method |-> "modify", add |-> <<>>, remove |-> <<"INBOX">>]
      [] action = "mark_read" -> [method |-> "modify", add |-> <<>>, remove |-> <<"UNREAD">>]
      [] action = "mark_unread" -> [method |-> "modify", add |-> <<"UNREAD">>, remove |-> <<>>]
      [] action = "add_label" -> [method |-> "modify", add |-> <<label_id>>, remove |-> <<>>]
      [] action = "remove_label" -> [method |-> "modify", add |-> <<>>, remove |-> <<label_id>>]

\* the action is one organize_email carries out
Recognized(action, label_id) ==
    \/ action \in {"delete", "archive", "mark_read", "mark_unread"}
    \/ action \in {"add_label", "remove_label"} /\ label_id \notin {NoneLabel, ""}

\* C27: once it has its Gmail handle, organize_email issues exactly one request,
\* the delete or the modify with the label change of the action, when the action
\* is delete, archive, mark_read, mark_unread, or add_label / remove_label with a
\* non-empty label_id; for every other action, add_label and remove_label
\* without label_id included, it issues no request and returns the "Unknown
\* action" message.
C27_OrganizeEmailDispatch ==
    (last.fn = "organize_email" /\ last.ok)
        => IF Recognized(last.arg, last.label)
           THEN /\ last.calls = <<ExpectedRequest(last.arg, last.label)>>
                /\ last.text # "Unknown action"
           ELSE /\ last.calls = <<>>
                /\ last.text = "Unknown action" /\ last.ret = "result_string"

C27_Witness ==
    /\ last.fn = "organize_email" /\ last.ok
    /\ last.arg = "add_label" /\ last.label = ""
    /\ last.calls = <<>> /\ last.text = "Unknown action"

\* C28: search_emails, search_events and search_drive_files called with an empty
\* or whitespace-only query return "Search query cannot be empty" and do nothing
\* remote: no list request, no token load, refresh, interactive flow or
\* token-file write.
C28_EmptyQueryDoesNothingRemote ==
    (last.fn \in {f[1] : f \in SearchFunctions} /\ EmptyQuery(last.query))
        => /\ last.text = "Search query cannot be empty"
           /\ last.calls = <<>>
           /\ ~last.loaded /\ last.nRefresh = 0 /\ ~last.flow /\ ~last.wrote

\* the part of C28 the code keeps: an empty query never reaches the list
\* request, and a non-empty one is sent stripped
C28_EmptyQueryNeverListed ==
    last.fn \in {f[1] : f \in SearchFunctions}
        => /\ EmptyQuery(last.query) => last.calls = <<>>
           /\ \A i \in DOMAIN last.calls : last.calls[i].q = strip(last.query)

C28_WitnessMessageAfterAuth ==
    /\ last.fn = "search_events" /\ last.query = <<" ", "\t">>
    /\ last.text = "Search query cannot be empty" /\ last.flow /\ last.wrote

\* the stripped line is "exit" in any mix of upper and lower case
IsExitWord(task) ==
    /\ Len(task) = 4
    /\ task[1] \in {"e", "E"} /\ task[2] \in {"x", "X"}
    /\ task[3] \in {"i", "I"} /\ task[4] \in {"t", "T"}

\* nothing but whitespace in the line
OnlyWhitespace(line) == \A i \in DOMAIN line : line[i] \in Whitespace

\* C29: after a line was entered the loop has ended exactly when the line,
\* stripped of whitespace, is empty or is "exit" in any case; for every other
\* line an exception raised while the command is processed is reported and the
\* loop is back at the prompt; and a command that runs does so in a session
\* created for it, one no earlier command ran in.
C29_CliLoop ==
    (cli.n > 0 /\ cli.pc # "aborted")
        => /\ cli.pc = "stopped"
                <=> (OnlyWhitespace(cli.line) \/ IsExitWord(strip(cli.line)))
           /\ cli.pc = "prompt"
                => /\ cli.report \in {"result", "error"}
                   /\ cli.raised => cli.report = "error"
                   /\ cli.ran => /\ cli.session = cli.sessions
                                 /\ cli.session \notin cli.earlier
                                 /\ cli.session # 0

C29_Witness ==
    /\ cli.n = 3 /\ cli.pc = "stopped"
    /\ cli.line = <<" ", "e", "x", "i", "T", " ">>
    /\ cli.earlier = {1, 2}
    /\ cli.sessions = 2

C29_WitnessErrorThenPrompt ==
    /\ cli.n = 2 /\ cli.pc = "prompt" /\ cli.raised /\ cli.ran
    /\ cli.report = "error" /\ cli.session = 2 /\ cli.earlier = {1}

====
